---- MODULE Spec2Model ----
\* Model of src/StorageRent/StorageRent.ts: calculateMonthlyRent and its helpers.
\*
\* Dates are records [year, month, date] (month zero-based, as Date.getMonth()),
\* built by NewDate, which normalises its arguments the way the JavaScript Date
\* constructor does (month 12 is January of the next year, day 0 is the last
\* day of the previous month).
\* Money is counted in cents; a value that has not been rounded yet is a pair
\* <<num, den>> standing for num/den cents, and roundToTwoDecimalPlaces maps it
\* to whole cents as Math.round does (half goes up).  The rent change rate is
\* counted in hundredths (5 stands for 0.05).
\* Arithmetic is exact: the rounding error of the source's binary floating
\* point, far below half a cent for the amounts used here, is not modelled.
\* pc is the position of one call: "start", "loop", then "done" (returned) or
\* "failed" (a TypeError left calculateMonthlyRent).
EXTENDS Integers, Sequences, FiniteSets

VARIABLES pc, contract, monthlyRentRecords, month, dateArgs, dueDate

vars == <<pc, contract, monthlyRentRecords, month, dateArgs, dueDate>>

\* ---------------------------------------------------------------- bounds

\* The window may end up to this many years after the lease-start year.
MaxWindowYears == 3

LeaseYears == {2024}
LeaseStartDays == {1, 15, 30}
WindowEndDays == {15, 31}
WindowEndMonths == {0, 2, 5, 11}
DueDays == {15, 31}
Frequencies == {1, 12}
Rates == {-5, 0, 5}
BaseRents == {100000}

\* Inputs of the first-month calculation taken alone.
ProrationBaseRents == {0, 1, 100000, 123457}
AllDays == 1..31

\* Inputs of the due-date correction taken alone.
CorrectionYears == {1900, 2000, 2023, 2024, 2100}

\* ------------------------------------------------- the Date built-in

DaysInYear(y) ==
    IF y % 4 # 0 THEN 365
    ELSE IF y % 100 # 0 THEN 366
    ELSE IF y % 400 # 0 THEN 365
    ELSE 366

DayFromYear(y) ==
    365 * (y - 1970) + ((y - 1969) \div 4) - ((y - 1901) \div 100)
        + ((y - 1601) \div 400)

InLeapYear(y) == IF DaysInYear(y) = 366 THEN 1 ELSE 0

\* Day within the year on which month m (0..11) starts.
MonthStart(y, m) ==
    LET plain == <<0, 31, 59, 90, 120, 151, 181, 212, 243, 273, 304, 334>>
    IN  plain[m + 1] + (IF m >= 2 THEN InLeapYear(y) ELSE 0)

MakeDay(year, mon, date) ==
    LET ym == year + (mon \div 12)
        mn == mon % 12
    IN  DayFromYear(ym) + MonthStart(ym, mn) + date - 1

\* The date of year y whose day within the year is dayInYear (MonthFromTime
\* and DateFromTime of the built-in).
DateInYear(y, dayInYear) ==
    CHOOSE d \in { [year |-> y, month |-> m,
                    date |-> dayInYear - MonthStart(y, m) + 1] : m \in 0..11 } :
        /\ 1 <= d.date
        /\ (d.month = 11 \/ dayInYear < MonthStart(y, d.month + 1))

\* The calendar date of day number t (YearFromTime of the built-in, then the
\* date within that year).
DateOfDay(t) ==
    LET est == 1970 + (t \div 365)
    IN  CHOOSE d \in { DateInYear(y, t - DayFromYear(y)) :
                         y \in { yy \in (est - 2)..(est + 2) :
                                   DayFromYear(yy) <= t /\ t < DayFromYear(yy + 1) } } :
            TRUE

\* new Date(year, mon, date), read back through getFullYear/getMonth/getDate.
NewDate(year, mon, date) ==
    CHOOSE d \in { DateOfDay(t) : t \in {MakeDay(year, mon, date)} } : TRUE

\* ------------------------------------------------------------- helpers

calculateNewMonthlyRent(baseMonthlyRent, rentChangeRate) ==
    <<baseMonthlyRent * (100 + rentChangeRate), 100>>

isLeapYear(year) == year % 4 = 0 /\ year % 100 # 0

roundToTwoDecimalPlaces(value) ==
    (2 * value[1] + value[2]) \div (2 * value[2])

calculateMonthDifference(windowEndDate, windowStartDate) ==
    IF windowStartDate.year > windowEndDate.year THEN -1
    ELSE IF windowStartDate.year = windowEndDate.year
        THEN windowEndDate.month - windowStartDate.month
    ELSE LET countMonthsInYear ==
                 (windowEndDate.year - windowStartDate.year - 1) * 12
         IN  IF windowStartDate.month > windowEndDate.month
                 THEN windowStartDate.month - windowEndDate.month + countMonthsInYear
                 ELSE windowEndDate.month - windowStartDate.month + countMonthsInYear

isVacantFlipped(rentChangeRate) == rentChangeRate <= 0

isVacant(rentChangeRate) == rentChangeRate < 0

getDaysInMonth(year, mon) == NewDate(year, mon + 1, 0).date

\* The February branch taken as final: what the code would do if the
\* unconditional assignment on the next line were the else of that branch.
correctRentDueDateFebruaryBranch(year, mon, dayOfMonthRentDue) ==
    LET daysInMonth ==
            IF mon = 1 /\ dayOfMonthRentDue > 28
                THEN (IF isLeapYear(year) THEN 29 ELSE 28)
                ELSE getDaysInMonth(year, mon)
    IN  IF dayOfMonthRentDue > daysInMonth
            THEN NewDate(year, mon, daysInMonth)
            ELSE NewDate(year, mon, dayOfMonthRentDue)

correctRentDueDate(year, mon, dayOfMonthRentDue) ==
    LET firstAssignment ==
            IF mon = 1 /\ dayOfMonthRentDue > 28
                THEN (IF isLeapYear(year) THEN 29 ELSE 28)
                ELSE 0
        \* the first assignment is overwritten before it is read
        daysInMonth == getDaysInMonth(year, mon)
    IN  IF dayOfMonthRentDue > daysInMonth
            THEN NewDate(year, mon, daysInMonth)
            ELSE NewDate(year, mon, dayOfMonthRentDue)

calculateFirstMonthRent(dayOfMonthRentDue, leaseStartDate, baseMonthlyRent, rentChangeRate) ==
    LET firstDue == correctRentDueDate(leaseStartDate.year, leaseStartDate.month,
                                       dayOfMonthRentDue)
        isLeaseStartDateAfterDueDate ==
            IF dayOfMonthRentDue < leaseStartDate.date THEN 1 ELSE 0
        calcRent ==
            roundToTwoDecimalPlaces(
                <<baseMonthlyRent
                    * (30 * isLeaseStartDateAfterDueDate
                         - (dayOfMonthRentDue - leaseStartDate.date))
                    * (IF isLeaseStartDateAfterDueDate = 1 THEN 1 ELSE -1),
                  30>>)
    IN  IF dayOfMonthRentDue = leaseStartDate.date
            THEN << [vacancy |-> isVacant(rentChangeRate),
                     rentAmount |-> baseMonthlyRent,
                     rentDueDate |-> firstDue] >>
        ELSE IF isLeaseStartDateAfterDueDate = 1
            THEN << [vacancy |-> isVacant(rentChangeRate),
                     rentAmount |-> calcRent,
                     rentDueDate |-> firstDue] >>
        ELSE << [vacancy |-> isVacant(rentChangeRate),
                 rentAmount |-> calcRent,
                 rentDueDate |-> leaseStartDate],
                [vacancy |-> isVacant(rentChangeRate),
                 rentAmount |-> baseMonthlyRent,
                 rentDueDate |-> firstDue] >>

\* ------------------------------------------------------------ contracts

Contracts ==
    { [baseMonthlyRent |-> b,
       leaseStartDate |-> NewDate(y, m, d),
       windowStartDate |-> NewDate(y, 0, 1),
       windowEndDate |-> NewDate(y + wy, wm, wd),
       dayOfMonthRentDue |-> due,
       rentRateChangeFrequency |-> f,
       rentChangeRate |-> r] :
        b \in BaseRents, y \in LeaseYears, m \in 0..11, d \in LeaseStartDays,
        wy \in (-1)..MaxWindowYears, wm \in WindowEndMonths, wd \in WindowEndDays,
        due \in DueDays, f \in Frequencies, r \in Rates }

ProrationContracts ==
    { [baseMonthlyRent |-> b,
       leaseStartDate |-> NewDate(y, 0, d),
       windowStartDate |-> NewDate(y, 0, 1),
       windowEndDate |-> NewDate(y, 11, 31),
       dayOfMonthRentDue |-> due,
       rentRateChangeFrequency |-> 12,
       rentChangeRate |-> r] :
        b \in ProrationBaseRents, y \in LeaseYears, d \in AllDays,
        due \in AllDays, r \in {-5, 5} }

\* ------------------------------------------------- calculateMonthlyRent

lastRecord == monthlyRentRecords[Len(monthlyRentRecords)]

loopBound == calculateMonthDifference(contract.windowEndDate, lastRecord.rentDueDate)

nextDueDate ==
    correctRentDueDate(contract.leaseStartDate.year,
                       lastRecord.rentDueDate.month + 1,
                       contract.dayOfMonthRentDue)

Init ==
    /\ pc = "start"
    /\ contract \in Contracts
    /\ monthlyRentRecords = <<>>
    /\ month = 0
    /\ dateArgs = <<>>
    /\ dueDate = <<>>

\* Lines 42-53: seed the sequence and initialise the loop counter.
FirstMonth ==
    /\ pc = "start"
    /\ LET firstMonthRent ==
               calculateFirstMonthRent(contract.dayOfMonthRentDue,
                                       contract.leaseStartDate,
                                       contract.baseMonthlyRent,
                                       contract.rentChangeRate)
       IN  /\ monthlyRentRecords' = firstMonthRent
           /\ month' = firstMonthRent[Len(firstMonthRent)].rentDueDate.month
    /\ pc' = "loop"
    /\ UNCHANGED <<contract, dateArgs, dueDate>>

\* One iteration taking the escalation branch (month % frequency === 0).
Escalate ==
    /\ pc = "loop"
    /\ month <= loopBound
    /\ month % contract.rentRateChangeFrequency = 0
    /\ monthlyRentRecords' = Append(monthlyRentRecords,
           [vacancy |-> isVacant(contract.rentChangeRate),
            rentAmount |-> roundToTwoDecimalPlaces(
                calculateNewMonthlyRent(lastRecord.rentAmount,
                                        contract.rentChangeRate)),
            rentDueDate |-> nextDueDate])
    /\ month' = month + 1
    /\ UNCHANGED <<pc, contract, dateArgs, dueDate>>

\* One iteration taking the lookback branch, monthlyRentRecords[month] defined.
Lookback ==
    /\ pc = "loop"
    /\ month <= loopBound
    /\ month % contract.rentRateChangeFrequency # 0
    /\ month < Len(monthlyRentRecords)
    /\ monthlyRentRecords' = Append(monthlyRentRecords,
           [vacancy |-> isVacant(contract.rentChangeRate),
            rentAmount |-> roundToTwoDecimalPlaces(
                <<monthlyRentRecords[month + 1].rentAmount, 1>>),
            rentDueDate |-> nextDueDate])
    /\ month' = month + 1
    /\ UNCHANGED <<pc, contract, dateArgs, dueDate>>

\* The lookback branch with monthlyRentRecords[month] undefined: reading
\* .rentAmount of undefined throws a TypeError out of calculateMonthlyRent.
LookbackUndefined ==
    /\ pc = "loop"
    /\ month <= loopBound
    /\ month % contract.rentRateChangeFrequency # 0
    /\ month >= Len(monthlyRentRecords)
    /\ pc' = "failed"
    /\ UNCHANGED <<contract, monthlyRentRecords, month, dateArgs, dueDate>>

\* The loop condition is false: return monthlyRentRecords.
Return ==
    /\ pc = "loop"
    /\ month > loopBound
    /\ pc' = "done"
    /\ UNCHANGED <<contract, monthlyRentRecords, month, dateArgs, dueDate>>

Next == FirstMonth \/ Escalate \/ Lookback \/ LookbackUndefined \/ Return

Spec == Init /\ [][Next]_vars

\* The call runs to its end: a synchronous function is never suspended.
FairSpec == Spec /\ WF_vars(Next)

\* ------------------------------- calculateFirstMonthRent taken alone

ProrationInit ==
    /\ pc = "start"
    /\ contract \in ProrationContracts
    /\ monthlyRentRecords = <<>>
    /\ month = 0
    /\ dateArgs = <<>>
    /\ dueDate = <<>>

ProrationSpec == ProrationInit /\ [][FirstMonth]_vars

\* -------------------------------- correctRentDueDate taken alone

CorrectionInit ==
    /\ pc = "call"
    /\ contract = <<>>
    /\ monthlyRentRecords = <<>>
    /\ month = 0
    /\ dateArgs \in [year : CorrectionYears, month : 0..11, day : AllDays]
    /\ dueDate = <<>>

CorrectDueDate ==
    /\ pc = "call"
    /\ dueDate' = correctRentDueDate(dateArgs.year, dateArgs.month, dateArgs.day)
    /\ pc' = "returned"
    /\ UNCHANGED <<contract, monthlyRentRecords, month, dateArgs>>

CorrectionSpec == CorrectionInit /\ [][CorrectDueDate]_vars

\* ------------------------------------------------------------ properties

seedRecords ==
    calculateFirstMonthRent(contract.dayOfMonthRentDue, contract.leaseStartDate,
                            contract.baseMonthlyRent, contract.rentChangeRate)

firstDueDate ==
    correctRentDueDate(contract.leaseStartDate.year, contract.leaseStartDate.month,
                       contract.dayOfMonthRentDue)

MonthIndex(d) == d.year * 12 + d.month

DateBefore(a, b) ==
    \/ MonthIndex(a) < MonthIndex(b)
    \/ MonthIndex(a) = MonthIndex(b) /\ a.date < b.date

DateNotAfter(a, b) == a = b \/ DateBefore(a, b)

\* The Gregorian calendar, stated without the Date built-in.
GregorianDaysInMonth(y, m) ==
    IF m = 1
        THEN (IF y % 4 = 0 /\ (y % 100 # 0 \/ y % 400 = 0) THEN 29 ELSE 28)
        ELSE IF m \in {3, 5, 8, 10} THEN 30 ELSE 31

Min(a, b) == IF a < b THEN a ELSE b

ScenarioContract ==
    [baseMonthlyRent |-> 100000,
     leaseStartDate |-> [year |-> 2024, month |-> 0, date |-> 15],
     windowStartDate |-> [year |-> 2024, month |-> 0, date |-> 1],
     windowEndDate |-> [year |-> 2024, month |-> 2, date |-> 31],
     dayOfMonthRentDue |-> 15,
     rentRateChangeFrequency |-> 12,
     rentChangeRate |-> 5]

\* C1: for the contract base 1000, lease start 2024-01-15, due day 15, window
\* end 2024-03-31, frequency 12, rate 0.05, the returned sequence is exactly
\* three records, none vacant, of amounts 1000, 1000, 1000, due 2024-01-15,
\* 2024-02-15 and 2024-03-15.
C1_Scenario ==
    (pc = "done" /\ contract = ScenarioContract) =>
        monthlyRentRecords =
            << [vacancy |-> FALSE, rentAmount |-> 100000,
                rentDueDate |-> [year |-> 2024, month |-> 0, date |-> 15]],
               [vacancy |-> FALSE, rentAmount |-> 100000,
                rentDueDate |-> [year |-> 2024, month |-> 1, date |-> 15]],
               [vacancy |-> FALSE, rentAmount |-> 100000,
                rentDueDate |-> [year |-> 2024, month |-> 2, date |-> 15]] >>

\* C2: with frequency 12 and rate 0.05, in a returned sequence of at least 13
\* records the 13th amount is round2(12th amount * 1.05), and every other
\* record appended by the loop between escalations has the amount of the
\* record before it.
C2_EscalationSchedule ==
    (/\ pc = "done"
     /\ contract.rentRateChangeFrequency = 12
     /\ contract.rentChangeRate = 5
     /\ Len(monthlyRentRecords) >= 13) =>
        /\ monthlyRentRecords[13].rentAmount =
               roundToTwoDecimalPlaces(
                   <<monthlyRentRecords[12].rentAmount * 105, 100>>)
        /\ \A i \in (Len(seedRecords) + 1)..Len(monthlyRentRecords) :
               (i - 1) % 12 # 0 =>
                   monthlyRentRecords[i].rentAmount =
                       monthlyRentRecords[i - 1].rentAmount

\* C3: when the window ends on or after the first due date, the returned
\* sequence has a record in every calendar month from the lease-start month
\* through the month of windowEndDate, and its last record is due in the year
\* and month of windowEndDate.
C3_Coverage ==
    (pc = "done" /\ DateNotAfter(firstDueDate, contract.windowEndDate)) =>
        /\ \A mi \in MonthIndex(contract.leaseStartDate)
                        ..MonthIndex(contract.windowEndDate) :
               \E i \in 1..Len(monthlyRentRecords) :
                   MonthIndex(monthlyRentRecords[i].rentDueDate) = mi
        /\ MonthIndex(lastRecord.rentDueDate) = MonthIndex(contract.windowEndDate)

\* C4: in every returned sequence each record's due date is strictly later
\* than the due date of the record before it.
C4_Chronological ==
    pc = "done" =>
        \A i \in 2..Len(monthlyRentRecords) :
            DateBefore(monthlyRentRecords[i - 1].rentDueDate,
                       monthlyRentRecords[i].rentDueDate)

\* C5: when the window ends before or on the first due date, the loop appends
\* nothing: the returned sequence is exactly the first-month record(s).
C5_WindowWithinFirstCycle ==
    (pc = "done" /\ DateNotAfter(contract.windowEndDate, firstDueDate)) =>
        monthlyRentRecords = seedRecords

\* C6: every record built, seed or appended, is vacant exactly when the rent
\* change rate is negative.
C6_VacancyFlag ==
    \A i \in 1..Len(monthlyRentRecords) :
        monthlyRentRecords[i].vacancy = (contract.rentChangeRate < 0)

\* A returned sequence with two seed records and appended ones, all vacant.
C6_Witness ==
    /\ pc = "done"
    /\ contract.rentChangeRate < 0
    /\ Len(seedRecords) = 2
    /\ Len(monthlyRentRecords) > 2
    /\ \A i \in 1..Len(monthlyRentRecords) : monthlyRentRecords[i].vacancy

\* C7: correctRentDueDate(year, month, day) is the date of that year and month
\* whose day is the smaller of the desired day and the Gregorian length of the
\* month, whatever isLeapYear answers.
C7_DueDateClamping ==
    pc = "returned" =>
        dueDate = [year |-> dateArgs.year,
                   month |-> dateArgs.month,
                   date |-> Min(dateArgs.day,
                                GregorianDaysInMonth(dateArgs.year, dateArgs.month))]

\* Day 30 asked of February 2000, a leap year isLeapYear denies: day 29.
C7_Witness ==
    /\ pc = "returned"
    /\ dateArgs = [year |-> 2000, month |-> 1, day |-> 30]
    /\ ~isLeapYear(2000)
    /\ dueDate = [year |-> 2000, month |-> 1, date |-> 29]

\* C8: an iteration taking the lookback branch finds the loop counter a valid
\* index of the sequence built so far, and calculateMonthlyRent never fails
\* on an undefined record.
C8_LookbackInRange ==
    /\ pc # "failed"
    /\ (/\ pc = "loop"
        /\ month <= loopBound
        /\ month % contract.rentRateChangeFrequency # 0) =>
           (0 <= month /\ month < Len(monthlyRentRecords))

\* C9: the loop performs finitely many iterations and calculateMonthlyRent
\* eventually returns.
C9_Terminates == <>(pc = "done")

\* C10: when the due day differs from the lease-start day, the prorated amount
\* (the first record of the seed) lies between 0 and baseMonthlyRent.
C10_ProrationIsPartial ==
    (/\ pc = "loop"
     /\ contract.dayOfMonthRentDue # contract.leaseStartDate.date
     /\ contract.baseMonthlyRent >= 0) =>
        /\ 0 <= monthlyRentRecords[1].rentAmount
        /\ monthlyRentRecords[1].rentAmount <= contract.baseMonthlyRent

====
